---------------------------- MODULE Spec2Model ----------------------------
(***************************************************************************)
(* Model of the utility wrappers of the automation-scripts repository:     *)
(*   - FileManager.wait_until_file_is_present / has_file_with_extension    *)
(*     (src/python/directory/file_manager.py)                              *)
(*   - the SQL Server connectors (src/python/sql/*.py and                  *)
(*     src/python/sql_server/dict_return/sql_server_pyodbc.py)             *)
(*   - EmailManager (src/python/email/email_manager.py)                    *)
(*   - SFTPManager (src/python/sftp/sftp_manager.py)                       *)
(*   - SeleniumHelper (src/python/selenium/selenium_helper.py)             *)
(*   - LoggerConfig (src/python/log/logger_config.py)                      *)
(*   - Bitrix24API (src/python/bitrix24/bitrix24_api.py)                   *)
(* Each component has its own specification; the variables of the other    *)
(* components stay at their parked values.                                 *)
(*                                                                         *)
(* Text (file names, extensions, SQL statements) is modelled as sequences  *)
(* of one-character strings so that lower(), upper(), glob matching,       *)
(* Path.suffix and substring tests are computed, not assumed.              *)
(***************************************************************************)
EXTENDS Integers, Sequences, FiniteSets, TLC

VARIABLES
    \* ---- FileManager ----
    folder,        \* entries of the polled folder: set of [name, is_file]
    caseSensitive, \* whether the platform's glob is case sensitive (POSIX) or not (Windows)
    clock,         \* time.time(), in whole seconds
    w_pc,          \* position of wait_until_file_is_present
    w_ext,         \* its file_extension argument
    w_timeout,     \* its timeout argument
    w_start,       \* its local start_time
    w_polls,       \* history: one record per completed poll of the loop
    \* ---- SQL Server connectors ----
    variant,          \* which connector class the object is an instance of
    database,         \* self.database
    use_windows_auth, \* self.use_windows_auth (pyodbc connectors)
    username,         \* self.username
    password,         \* self.password
    connection,       \* self.connection: NoConnection or the driver's handle
    handles,          \* number of connection handles the driver has issued
    call,             \* the last call made on the connector and what it did
    \* ---- EmailManager ----
    e_call,           \* the last send_email call and what it did
    e_sent,           \* number of messages the SMTP server has accepted
    \* ---- SFTPManager ----
    transport,        \* self.transport: "None", or the paramiko.Transport, "open" or "closed"
    sftp,             \* self.sftp: "None", or the paramiko.SFTPClient, "open" or "closed"
    local_fs,         \* the local file system: path -> content, or "absent"
    server_fs,        \* the SFTP server's file system: path -> content, or "absent"
    s_call,           \* the last call made on the SFTPManager and what it did
    \* ---- SeleniumHelper ----
    page_has_element, \* whether the page holds an element for (by, locator) now
    p_pc,             \* position of is_element_present
    p_timeout,        \* its timeout argument, in seconds
    p_elapsed,        \* half-seconds since WebDriverWait.until began
    p_polls,          \* history: what each find_element of the wait found
    p_ret,            \* what is_element_present returned
    p_raised,         \* what is_element_present raised
    \* ---- LoggerConfig ----
    env,              \* self.env
    handlers,         \* the handlers of the Loguru logger: set of [sink, level]
    emitted,          \* levels at which the application has logged a message
    received,         \* per sink, the levels of the messages written to it
    \* ---- Bitrix24API ----
    webhook_url,      \* self.webhook_url
    b_call,           \* the last send_*_request call and what it did
    b_issued          \* number of HTTP requests issued so far

fileVars == <<folder, caseSensitive, clock, w_pc, w_ext, w_timeout, w_start, w_polls>>
sqlVars == <<variant, database, use_windows_auth, username, password,
             connection, handles, call>>

emailVars == <<e_call, e_sent>>

sftpVars == <<transport, sftp, local_fs, server_fs, s_call>>

seleniumVars == <<page_has_element, p_pc, p_timeout, p_elapsed, p_polls, p_ret, p_raised>>

logVars == <<env, handlers, emitted, received>>

bitrixVars == <<webhook_url, b_call, b_issued>>

vars == <<fileVars, sqlVars, emailVars, sftpVars, seleniumVars, logVars, bitrixVars>>

\* what each component leaves alone
otherThanFile == <<sqlVars, emailVars, sftpVars, seleniumVars, logVars, bitrixVars>>
otherThanSql == <<fileVars, emailVars, sftpVars, seleniumVars, logVars, bitrixVars>>
otherThanEmail == <<fileVars, sqlVars, sftpVars, seleniumVars, logVars, bitrixVars>>
otherThanSftp == <<fileVars, sqlVars, emailVars, seleniumVars, logVars, bitrixVars>>
otherThanSelenium == <<fileVars, sqlVars, emailVars, sftpVars, logVars, bitrixVars>>
otherThanLog == <<fileVars, sqlVars, emailVars, sftpVars, seleniumVars, bitrixVars>>
otherThanBitrix == <<fileVars, sqlVars, emailVars, sftpVars, seleniumVars, logVars>>

(***************************************************************************)
(* Text helpers                                                            *)
(***************************************************************************)

LowerLetters ==
    <<"a", "b", "c", "d", "e", "f", "g", "h", "i", "j", "k", "l", "m",
      "n", "o", "p", "q", "r", "s", "t", "u", "v", "w", "x", "y", "z">>
UpperLetters ==
    <<"A", "B", "C", "D", "E", "F", "G", "H", "I", "J", "K", "L", "M",
      "N", "O", "P", "Q", "R", "S", "T", "U", "V", "W", "X", "Y", "Z">>

\* str.lower() on one character
LowerChar(c) ==
    IF \E i \in 1..26 : UpperLetters[i] = c
    THEN LowerLetters[CHOOSE i \in 1..26 : UpperLetters[i] = c]
    ELSE c

\* str.upper() on one character
UpperChar(c) ==
    IF \E i \in 1..26 : LowerLetters[i] = c
    THEN UpperLetters[CHOOSE i \in 1..26 : LowerLetters[i] = c]
    ELSE c

\* str.upper()
Upper(s) == [i \in 1..Len(s) |-> UpperChar(s[i])]

\* the Python test  sub in s
Contains(s, sub) ==
    \E i \in 1..(Len(s) - Len(sub) + 1) : SubSeq(s, i, i + Len(sub) - 1) = sub

\* str.lower()
Lower(s) == [i \in 1..Len(s) |-> LowerChar(s[i])]

\* str.rfind("."): the 0-based index of the last ".", or -1
RFindDot(s) ==
    LET idx == {i \in 1..Len(s) : s[i] = "."}
    IN  IF idx = {} THEN -1
        ELSE (CHOOSE i \in idx : \A j \in idx : j <= i) - 1

\* pathlib's PurePath.suffix: the last dotted part of the name, "" when the
\* only dot leads the name or ends it
Suffix(name) ==
    LET i == RFindDot(name)
    IN  IF 0 < i /\ i < Len(name) - 1
        THEN SubSeq(name, i + 1, Len(name))
        ELSE <<>>

\* fnmatch of a name against a pattern whose only wildcard is "*"
RECURSIVE FnMatch(_, _)
FnMatch(s, p) ==
    IF p = <<>> THEN s = <<>>
    ELSE IF Head(p) = "*"
         THEN FnMatch(s, Tail(p)) \/ (s # <<>> /\ FnMatch(Tail(s), p))
         ELSE s # <<>> /\ Head(s) = Head(p) /\ FnMatch(Tail(s), Tail(p))

(***************************************************************************)
(* Values shared by the components                                         *)
(***************************************************************************)

\* Python's None
NONE == "<None>"

\* None in self.connection; the driver's handles are 1, 2, ...
NoConnection == 0

\* truth value of an Optional[str]: None and "" are falsy
Truthy(v) == v # NONE /\ v # ""

\* an exception: its type, who raised it, and the type of its __cause__
Exc(type, by, cause) == [type |-> type, by |-> by, cause |-> cause]
NoExc == Exc("none", "none", "none")

\* a return value; kind "novalue" stands for a call that raised
Value(kind, columns, rows) == [kind |-> kind, columns |-> columns, rows |-> rows]
NoValue == Value("novalue", <<>>, <<>>)
ReturnsNone == Value("None", <<>>, <<>>)

NoParams == [given |-> FALSE, values |-> <<>>]
NoResultSet == [columns |-> <<>>, rows |-> <<>>]

\* a file on disk as open(file_path, "r") finds it: absent, or holding a text
SqlFile(exists, content) == [exists |-> exists, content |-> content]
NoSqlFile == SqlFile(FALSE, <<>>)

\* where, if anywhere, the driver fails during one call: nowhere
NoFail == [at |-> "none", exc |-> NoExc]

\* no call has been made yet
NoCall ==
    [op |-> "none", query |-> <<>>, params |-> NoParams, hadConn |-> NoConnection,
     raised |-> NoExc, ret |-> NoValue, drv |-> <<>>, log |-> <<>>,
     connectArgs |-> <<>>, executeArgs |-> NoParams, driverRaised |-> NoExc,
     driverReturned |-> NoConnection, resultSet |-> NoResultSet,
     file |-> NoSqlFile, fail |-> NoFail]

\* an Optional[List] argument that was not given (None)
NoList == [given |-> FALSE, values |-> <<>>]
List(values) == [given |-> TRUE, values |-> values]

\* no message was built
NoMessage == [From |-> "", To |-> <<>>, Cc |-> <<>>, Bcc |-> <<>>, attachments |-> <<>>]

\* send_email has not been called
NoEmailCall ==
    [op |-> "none", email_receivers |-> <<>>, cc_email |-> NoList, bcc_email |-> NoList,
     file_paths |-> NoList, checked |-> <<>>, failedAt |-> "none", inner |-> NoExc,
     raised |-> NoExc, smtp |-> <<>>, envelope |-> <<>>, message |-> NoMessage,
     log |-> <<>>]

\* the e-mail manager is not in use
EmailParked ==
    /\ e_call = NoEmailCall
    /\ e_sent = 0

\* the paths the SFTP calls are tried on, locally and on the server
Paths == {"/data/a.csv", "/data/b.csv"}

\* a file system without files
EmptyFs == [p \in Paths |-> "absent"]

\* no call has been made on the SFTPManager
NoSftpCall ==
    [op |-> "none", source_path |-> "", destination_path |-> "", inner |-> NoExc,
     raised |-> NoExc, calls |-> <<>>, localRead |-> {}, serverBefore |-> EmptyFs,
     log |-> <<>>]

\* the SFTP manager is not in use
SftpParked ==
    /\ transport = "None"
    /\ sftp = "None"
    /\ local_fs = EmptyFs
    /\ server_fs = EmptyFs
    /\ s_call = NoSftpCall

\* the Selenium helper is not in use
SeleniumParked ==
    /\ page_has_element = FALSE
    /\ p_pc = "parked"
    /\ p_timeout = 0
    /\ p_elapsed = 0
    /\ p_polls = <<>>
    /\ p_ret = "novalue"
    /\ p_raised = NoExc

\* where log messages can go: sys.stdout and the two log files
Sinks == {"console", "general_log_file", "error_log_file"}

\* the logger configuration is not in use
LogParked ==
    /\ env = "none"
    /\ handlers = {}
    /\ emitted = {}
    /\ received = [s \in Sinks |-> {}]

\* a keyword argument of requests.post / requests.get that was not passed
NoArg == [given |-> FALSE, value |-> {}]
Arg(value) == [given |-> TRUE, value |-> value]

\* no HTTP response
NoResponse == [status_code |-> 0]

\* no send_*_request call has been made
NoBitrixCall ==
    [op |-> "none", method |-> "", params |-> {}, requests |-> <<>>,
     response |-> NoResponse, ret |-> NoResponse, raised |-> NoExc]

\* the Bitrix24 client is not in use
BitrixParked ==
    /\ webhook_url = ""
    /\ b_call = NoBitrixCall
    /\ b_issued = 0

(***************************************************************************)
(* FileManager                                                             *)
(***************************************************************************)

MaxTimeout == 2     \* timeouts tried: 0..MaxTimeout
MaxGlobTime == 1    \* seconds one directory scan may take
MaxOversleep == 1   \* seconds time.sleep may overshoot
SleepSeconds == 1   \* time.sleep(1)

\* names that may show up in the folder
Name_x_txt  == <<"x", ".", "t", "x", "t">>
Name_x__txt == <<"x", ".", ".", "t", "x", "t">>
Name_y_TXT  == <<"y", ".", "T", "X", "T">>
Name_d_txt  == <<"d", ".", "t", "x", "t">>

Entries ==
    { [name |-> Name_x_txt,  is_file |-> TRUE],
      [name |-> Name_x__txt, is_file |-> TRUE],
      [name |-> Name_y_TXT,  is_file |-> TRUE],
      [name |-> Name_d_txt,  is_file |-> FALSE] }

\* extensions a caller may pass
Ext_txt    == <<"t", "x", "t">>
Ext_dottxt == <<".", "t", "x", "t">>
Ext_TXT    == <<"T", "X", "T">>
Extensions == {Ext_txt, Ext_dottxt, Ext_TXT}

\* Path.glob(pattern): the entries (files and directories alike) whose name
\* matches; the match ignores case only where the platform does
Glob(dir, pattern) ==
    {e \in dir : IF caseSensitive
                  THEN FnMatch(e.name, pattern)
                  ELSE FnMatch(Lower(e.name), Lower(pattern))}

\* f"*.{file_extension.lower()}"
WaitPattern(ext) == <<"*", ".">> \o Lower(ext)

\* has_file_with_extension on an existing directory
HasFileWithExtension(dir, ext) ==
    \E e \in dir : e.is_file /\ Lower(Suffix(e.name)) = Lower(ext)

\* faulty variant: the timeout test uses > instead of >=
WaitOutcomeStrict(files, elapsed, timeout) ==
    IF files # {} THEN "returned"
    ELSE IF elapsed > timeout THEN "raised"
    ELSE "sleeping"

\* faulty variant: the timeout is tested before the files
WaitOutcomeTimeoutFirst(files, elapsed, timeout) ==
    IF elapsed >= timeout THEN "raised"
    ELSE IF files # {} THEN "returned"
    ELSE "sleeping"

\* one pass of the while loop: break, raise TimeoutError, or go to sleep
WaitOutcome(files, elapsed, timeout) ==
    IF files # {} THEN "returned"
    ELSE IF elapsed >= timeout THEN "raised"
    ELSE "sleeping"

\* the connector is not in use
SqlParked ==
    /\ variant = "none"
    /\ database = NONE
    /\ use_windows_auth = FALSE
    /\ username = NONE
    /\ password = NONE
    /\ connection = NoConnection
    /\ handles = 0
    /\ call = NoCall

FileInit ==
    /\ folder \in SUBSET Entries
    /\ caseSensitive \in BOOLEAN
    /\ clock \in 0..1
    /\ w_pc = "idle"
    /\ w_ext \in Extensions
    /\ w_timeout \in 0..MaxTimeout
    /\ w_start = 0
    /\ w_polls = <<>>
    /\ SqlParked
    /\ EmailParked
    /\ SftpParked
    /\ SeleniumParked
    /\ LogParked
    /\ BitrixParked

\* the call is entered: start_time = time.time()
WaitCall ==
    /\ w_pc = "idle"
    /\ w_start' = clock
    /\ w_pc' = "polling"
    /\ UNCHANGED <<folder, caseSensitive, clock, w_ext, w_timeout, w_polls>>
    /\ UNCHANGED otherThanFile

\* one iteration of the loop up to the sleep: glob, test, measure, test
WaitPoll ==
    /\ w_pc = "polling"
    /\ \E d \in 0..MaxGlobTime :
         LET files   == Glob(folder, WaitPattern(w_ext))
             now     == clock + d
             elapsed == now - w_start
         IN  /\ clock' = now
             /\ w_polls' = Append(w_polls,
                    [found   |-> files # {},
                     has     |-> HasFileWithExtension(folder, w_ext),
                     elapsed |-> elapsed])
             /\ w_pc' = WaitOutcome(files, elapsed, w_timeout)
    /\ UNCHANGED <<folder, caseSensitive, w_ext, w_timeout, w_start>>
    /\ UNCHANGED otherThanFile

\* time.sleep(1)
WaitSleep ==
    /\ w_pc = "sleeping"
    /\ \E d \in SleepSeconds..(SleepSeconds + MaxOversleep) : clock' = clock + d
    /\ w_pc' = "polling"
    /\ UNCHANGED <<folder, caseSensitive, w_ext, w_timeout, w_start, w_polls>>
    /\ UNCHANGED otherThanFile

\* another process drops an entry into the folder while the call waits
EntryAppears ==
    /\ w_pc \in {"polling", "sleeping"}
    /\ \E e \in Entries \ folder : folder' = folder \cup {e}
    /\ UNCHANGED <<caseSensitive, clock, w_pc, w_ext, w_timeout, w_start, w_polls>>
    /\ UNCHANGED otherThanFile

\* another process removes an entry while the call waits
EntryVanishes ==
    /\ w_pc \in {"polling", "sleeping"}
    /\ \E e \in folder : folder' = folder \ {e}
    /\ UNCHANGED <<caseSensitive, clock, w_pc, w_ext, w_timeout, w_start, w_polls>>
    /\ UNCHANGED otherThanFile

FileNext ==
    \/ WaitCall
    \/ WaitPoll
    \/ WaitSleep
    \/ EntryAppears
    \/ EntryVanishes

FileSpec == FileInit /\ [][FileNext]_vars

(***************************************************************************)
(* FileManager: claims                                                     *)
(***************************************************************************)

Running == w_pc \in {"polling", "sleeping"}
Finished == w_pc \in {"returned", "raised"}

\* a poll that saw no matching entry at a moment when the timeout had run out
PollIsDue(i) == ~w_polls[i].found /\ w_polls[i].elapsed >= w_timeout

\* C1: when no poll of wait_until_file_is_present finds an entry matching its
\* pattern, the call ends by raising TimeoutError: it raises at the first poll
\* whose elapsed time is >= timeout and at no poll before that one, and since
\* every sleep lasts at least a second that poll is at the latest poll number
\* timeout + 1.
C1TimeoutAtFirstDuePoll ==
    /\ \A i \in 1..Len(w_polls) :
         /\ PollIsDue(i) => (i = Len(w_polls) /\ w_pc = "raised")
         /\ (i = Len(w_polls) /\ w_pc = "raised") => PollIsDue(i)
    /\ w_pc = "raised" => Len(w_polls) >= 1
    /\ (\A i \in 1..Len(w_polls) : ~w_polls[i].found) => w_pc # "returned"
    /\ Running => Len(w_polls) <= w_timeout
    /\ Finished => Len(w_polls) <= w_timeout + 1

\* a call that timed out after at least one sleep, with a positive timeout
C1Witness ==
    /\ w_pc = "raised"
    /\ w_timeout > 0
    /\ Len(w_polls) >= 2
    /\ \A i \in 1..Len(w_polls) : ~w_polls[i].found
    /\ w_polls[Len(w_polls) - 1].elapsed < w_timeout

C3WaitAgreesWithHasFile ==
    (w_ext = Ext_dottxt /\ Finished) =>
        /\ \A i \in 1..Len(w_polls) : w_polls[i].found = w_polls[i].has
        /\ w_polls[Len(w_polls)].has => w_pc = "returned"

(***************************************************************************)
(* SQL Server connectors                                                   *)
(***************************************************************************)

MaxHandles == 2   \* connections the driver hands out in one run
MaxRows == 2      \* rows in a result set

\* the four connector classes
SDC == "sql_database_connector"
PYMSSQL == "sql_server_pymssql"
PYODBC == "sql_server_pyodbc"
PYODBC_DICT == "dict_return.sql_server_pyodbc"
PymssqlVariants == {SDC, PYMSSQL}
PyodbcVariants == {PYODBC, PYODBC_DICT}
Variants == PymssqlVariants \cup PyodbcVariants

Kw_SELECT == <<"S", "E", "L", "E", "C", "T">>
Kw_INSERT == <<"I", "N", "S", "E", "R", "T">>
Kw_UPDATE == <<"U", "P", "D", "A", "T", "E">>
Kw_DELETE == <<"D", "E", "L", "E", "T", "E">>

\* SELECT a FROM t
Q_Select ==
    <<"S", "E", "L", "E", "C", "T", " ", "a", " ", "F", "R", "O", "M", " ", "t">>
\* select a from t
Q_SelectLower ==
    <<"s", "e", "l", "e", "c", "t", " ", "a", " ", "f", "r", "o", "m", " ", "t">>
\* INSERT INTO t VALUES (1)
Q_Insert ==
    <<"I", "N", "S", "E", "R", "T", " ", "I", "N", "T", "O", " ", "t", " ", "V", "A", "L", "U", "E", "S", " ", "(", "1", ")">>
\* UPDATE t SET a = 1
Q_Update ==
    <<"U", "P", "D", "A", "T", "E", " ", "t", " ", "S", "E", "T", " ", "a", " ", "=", " ", "1">>
\* DELETE FROM t
Q_Delete ==
    <<"D", "E", "L", "E", "T", "E", " ", "F", "R", "O", "M", " ", "t">>
\* DELETE FROM selected
Q_DeleteSelected ==
    <<"D", "E", "L", "E", "T", "E", " ", "F", "R", "O", "M", " ", "s", "e", "l", "e", "c", "t", "e", "d">>
\* INSERT INTO t SELECT a FROM u
Q_InsertSelect ==
    <<"I", "N", "S", "E", "R", "T", " ", "I", "N", "T", "O", " ", "t", " ", "S", "E", "L", "E", "C", "T", " ", "a", " ", "F", "R", "O", "M", " ", "u">>

Queries ==
    {Q_Select, Q_SelectLower, Q_Insert, Q_Update, Q_Delete, Q_DeleteSelected,
     Q_InsertSelect}

\* params arguments a caller may pass: None, [] and [123]
ParamsTried ==
    {NoParams, [given |-> TRUE, values |-> <<>>], [given |-> TRUE, values |-> <<123>>]}

\* ---- the driver, as the connectors see it ----

\* the statement's leading keyword
FirstWord(q) ==
    LET sp == {i \in 1..Len(q) : q[i] = " "}
    IN  IF sp = {} THEN q
        ELSE SubSeq(q, 1, (CHOOSE i \in sp : \A j \in sp : i <= j) - 1)

\* the statement is a SELECT statement: the server answers it with a result
\* set, and answers no other statement of the model with one
LeadsWithSelect(q) == Upper(FirstWord(q)) = Kw_SELECT
IsSelectStatementOf == [q \in Queries |-> LeadsWithSelect(q)]
IsSelectStatement(q) == IsSelectStatementOf[q]

\* the result sets a SELECT may come back with: 0..MaxRows rows of two columns
ResultSets ==
    {[columns |-> <<"a", "b">>, rows |-> [i \in 1..n |-> <<i, 10 + i>>]] :
        n \in 0..MaxRows}

\* exception types the driver raises of its own accord
DriverErrors(v) ==
    IF v \in PymssqlVariants
    THEN {"pymssql.InterfaceError", "pymssql.DatabaseError",
          "pymssql.ProgrammingError", "Exception"}
    ELSE {"pyodbc.Error", "pyodbc.ProgrammingError"}

\* isinstance(e, pyodbc.Error)
IsPyodbcError(type) == type \in {"pyodbc.Error", "pyodbc.ProgrammingError"}

\* driver calls execute_query may make, by connector
DriverSteps(v) ==
    IF v = SDC THEN {"cursor", "read_sql"}
    ELSE {"cursor", "execute", "fetchall", "commit"}

\* where, if anywhere, the driver fails during one call
Fails(v, steps) ==
    {NoFail} \cup
    {[at |-> a, exc |-> Exc(t, "driver", "none")] : a \in steps, t \in DriverErrors(v)}

\* ---- the connectors ----

\* faulty variant: the handler wraps the error instead of re-raising it
PymssqlExceptWrapping(e) ==
    [raised |-> Exc("RuntimeError", "connector", e.type), log |-> <<"ERROR">>]

\* the except clauses of the pymssql connectors (InterfaceError, DatabaseError,
\* ProgrammingError, Exception): each logs one error and re-raises
PymssqlExcept(e) ==
    [raised |-> e, log |-> <<"ERROR">>]

\* the except clause of the pyodbc connectors: a pyodbc.Error is logged and
\* replaced by a RuntimeError chained to it; anything else propagates untouched
PyodbcExcept(e) ==
    IF IsPyodbcError(e.type)
    THEN [raised |-> Exc("RuntimeError", "connector", e.type), log |-> <<"ERROR">>]
    ELSE [raised |-> e, log |-> <<>>]

Except(v, e) == IF v \in PymssqlVariants THEN PymssqlExcept(e) ELSE PyodbcExcept(e)

\* faulty variant: the database is always passed
PymssqlConnectParamsAlways(user, pw, db) ==
    << <<"server", "localhost">>, <<"user", user>>, <<"password", pw>>,
       <<"database", db>> >>

\* keyword arguments of pymssql.connect
PymssqlConnectParams(user, pw, db) ==
    IF Truthy(db)
    THEN << <<"server", "localhost">>, <<"user", user>>, <<"password", pw>>,
            <<"database", db>> >>
    ELSE << <<"server", "localhost">>, <<"user", user>>, <<"password", pw>> >>

\* faulty variant: only a connector with neither username nor password is refused
PyodbcCredentialsMissingBoth(user, pw) == ~Truthy(user) /\ ~Truthy(pw)

\* not self.username or not self.password
PyodbcCredentialsMissing(user, pw) == ~Truthy(user) \/ ~Truthy(pw)

\* the ODBC connection string, as its KEY=value; parts
PyodbcConnectionString(db, wa, user, pw) ==
    IF wa
    THEN << <<"DRIVER", "{ODBC Driver 17 for SQL Server}">>, <<"SERVER", "localhost">>,
            <<"DATABASE", db>>, <<"Trusted_Connection", "yes">> >>
    ELSE << <<"DRIVER", "{ODBC Driver 17 for SQL Server}">>, <<"SERVER", "localhost">>,
            <<"DATABASE", db>>, <<"UID", user>>, <<"PWD", pw>> >>

\* connect(): outcome is the driver's answer, h the handle it would return
ConnectResult(v, conn, outcome, h) ==
    LET refused == v \in PyodbcVariants /\ ~use_windows_auth
                   /\ PyodbcCredentialsMissing(username, password)
        args == IF v \in PymssqlVariants
                THEN PymssqlConnectParams(username, password, database)
                ELSE PyodbcConnectionString(database, use_windows_auth, username, password)
    IN  IF refused
        THEN LET x == Except(v, Exc("ValueError", "connector", "none"))
             IN  [connection |-> conn, raised |-> x.raised, log |-> x.log,
                  drv |-> <<>>, connectArgs |-> <<>>,
                  driverRaised |-> NoExc, driverReturned |-> NoConnection]
        ELSE IF outcome = NoExc
        THEN [connection |-> h, raised |-> NoExc, log |-> <<"INFO">>,
              drv |-> <<"connect">>, connectArgs |-> args,
              driverRaised |-> NoExc, driverReturned |-> h]
        ELSE LET x == Except(v, outcome)
             IN  [connection |-> conn, raised |-> x.raised, log |-> x.log,
                  drv |-> <<"connect">>, connectArgs |-> args,
                  driverRaised |-> outcome, driverReturned |-> NoConnection]

\* what disconnect leaves in self.connection after a successful close():
\* the attribute is not assigned
ConnectionAfterClose(conn) == conn

\* disconnect()
DisconnectResult(v, conn, outcome) ==
    IF conn = NoConnection
    THEN [connection |-> conn, raised |-> NoExc, log |-> <<>>, drv |-> <<>>,
          driverRaised |-> NoExc]
    ELSE IF outcome = NoExc
    THEN [connection |-> ConnectionAfterClose(conn), raised |-> NoExc,
          log |-> <<"INFO">>, drv |-> <<"close">>, driverRaised |-> NoExc]
    ELSE LET x == Except(v, outcome)
         IN  [connection |-> conn, raised |-> x.raised, log |-> x.log,
              drv |-> <<"close">>, driverRaised |-> outcome]

\* "SELECT" in query.upper()
SelectInText(q) == Contains(Upper(q), Kw_SELECT)
SelectInQueryOf == [q \in Queries |-> SelectInText(q)]
SelectInQuery(q) == SelectInQueryOf[q]

\* the second argument of cursor.execute: params (pymssql), params or [] (pyodbc)
ExecuteArgs(v, params) ==
    IF v = PYMSSQL THEN params ELSE [given |-> TRUE, values |-> params.values]

\* execute_query ends by raising e, after the driver calls drv and the log entries log0
Failed(v, e, drv, log0, xargs, fetched) ==
    LET x == Except(v, e)
    IN  [raised |-> x.raised, ret |-> NoValue, drv |-> drv, log |-> log0 \o x.log,
         executeArgs |-> xargs,
         driverRaised |-> IF e.by = "driver" THEN e ELSE NoExc,
         resultSet |-> fetched]

\* execute_query ends by returning ret
Returned(ret, drv, log, xargs, fetched) ==
    [raised |-> NoExc, ret |-> ret, drv |-> drv, log |-> log,
     executeArgs |-> xargs, driverRaised |-> NoExc, resultSet |-> fetched]

AttributeErrorOnNone == Exc("AttributeError", "python", "none")

\* sql_database_connector.execute_query(query): pandas.read_sql does the work
ExecuteSdc(conn, q, fail, rs) ==
    IF conn = NoConnection
    THEN Failed(SDC, AttributeErrorOnNone, <<>>, <<>>, NoParams, NoResultSet)
    ELSE IF fail.at = "cursor"
    THEN Failed(SDC, fail.exc, <<"cursor">>, <<>>, NoParams, NoResultSet)
    ELSE IF fail.at = "read_sql"
    THEN Failed(SDC, fail.exc, <<"cursor", "read_sql">>, <<"INFO">>, NoParams, NoResultSet)
    ELSE IF ~IsSelectStatement(q)
    THEN Failed(SDC, Exc("TypeError", "pandas", "none"), <<"cursor", "read_sql">>,
                <<"INFO">>, NoParams, NoResultSet)
    ELSE Returned(Value("DataFrame", rs.columns, rs.rows), <<"cursor", "read_sql">>,
                  <<"INFO", "INFO">>, NoParams, rs)

\* the info entry of sql_server_pymssql after a commit
CommitLogForText(q) ==
    IF \/ Contains(Upper(q), Kw_INSERT)
       \/ Contains(Upper(q), Kw_UPDATE)
       \/ Contains(Upper(q), Kw_DELETE)
    THEN <<"INFO">>
    ELSE <<>>
PymssqlCommitLogOf == [q \in Queries |-> CommitLogForText(q)]
PymssqlCommitLog(q) == PymssqlCommitLogOf[q]

\* sql_server_pymssql.execute_query(query, params)
ExecutePymssql(conn, q, params, fail, rs) ==
    LET xargs == ExecuteArgs(PYMSSQL, params)
        sel == <<"cursor", "execute", "fetchall">>
        com == <<"cursor", "execute", "commit">>
    IN  IF conn = NoConnection
        THEN Failed(PYMSSQL, AttributeErrorOnNone, <<>>, <<"DEBUG">>, NoParams, NoResultSet)
        ELSE IF fail.at = "cursor"
        THEN Failed(PYMSSQL, fail.exc, <<"cursor">>, <<"DEBUG">>, NoParams, NoResultSet)
        ELSE IF fail.at = "execute"
        THEN Failed(PYMSSQL, fail.exc, <<"cursor", "execute">>, <<"DEBUG">>, xargs, NoResultSet)
        ELSE IF SelectInQuery(q)
        THEN IF ~IsSelectStatement(q)
             THEN Failed(PYMSSQL, Exc("pymssql.OperationalError", "driver", "none"),
                         sel, <<"DEBUG">>, xargs, NoResultSet)
             ELSE IF fail.at = "fetchall"
             THEN Failed(PYMSSQL, fail.exc, sel, <<"DEBUG">>, xargs, NoResultSet)
             ELSE Returned(Value("DataFrame", rs.columns, rs.rows), sel,
                           <<"DEBUG", "INFO">>, xargs, rs)
        ELSE IF fail.at = "commit"
        THEN Failed(PYMSSQL, fail.exc, com, <<"DEBUG">>, xargs, NoResultSet)
        ELSE Returned(ReturnsNone, com, <<"DEBUG">> \o PymssqlCommitLog(q), xargs,
                      NoResultSet)

\* sql_server_pyodbc.execute_query(query, params): the DataFrame variant
ExecutePyodbc(conn, q, params, fail, rs) ==
    LET xargs == ExecuteArgs(PYODBC, params)
        sel == <<"cursor", "execute", "fetchall">>
        com == <<"cursor", "execute", "commit">>
    IN  IF conn = NoConnection
        THEN Failed(PYODBC, AttributeErrorOnNone, <<>>, <<"DEBUG">>, NoParams, NoResultSet)
        ELSE IF fail.at = "cursor"
        THEN Failed(PYODBC, fail.exc, <<"cursor">>, <<"DEBUG">>, NoParams, NoResultSet)
        ELSE IF fail.at = "execute"
        THEN Failed(PYODBC, fail.exc, <<"cursor", "execute">>, <<"DEBUG">>, xargs, NoResultSet)
        ELSE IF SelectInQuery(q)
        THEN IF ~IsSelectStatement(q)
             THEN Failed(PYODBC, Exc("pyodbc.ProgrammingError", "driver", "none"),
                         sel, <<"DEBUG">>, xargs, NoResultSet)
             ELSE IF fail.at = "fetchall"
             THEN Failed(PYODBC, fail.exc, sel, <<"DEBUG">>, xargs, NoResultSet)
             ELSE IF rs.rows # <<>>
             THEN IF Len(rs.rows[1]) = Len(rs.columns)
                  THEN Returned(Value("DataFrame", rs.columns, rs.rows), sel,
                                <<"DEBUG", "INFO">>, xargs, rs)
                  ELSE Failed(PYODBC, Exc("ValueError", "connector", "none"), sel,
                              <<"DEBUG", "ERROR">>, xargs, rs)
             ELSE Returned(ReturnsNone, sel, <<"DEBUG">>, xargs, rs)
        ELSE IF fail.at = "commit"
        THEN Failed(PYODBC, fail.exc, com, <<"DEBUG">>, xargs, NoResultSet)
        ELSE Returned(ReturnsNone, com, <<"DEBUG", "INFO">>, xargs, NoResultSet)

\* dict(zip(columns, row))
ZipDict(columns, row) ==
    LET n == IF Len(columns) < Len(row) THEN Len(columns) ELSE Len(row)
    IN  [c \in {columns[i] : i \in 1..n} |->
            row[CHOOSE i \in 1..n : columns[i] = c /\ \A j \in 1..n : columns[j] = c => j <= i]]

\* SQLDatabaseConnectorDict.execute_query(query, params): the list-of-dict variant
ExecutePyodbcDict(conn, q, params, fail, rs) ==
    LET xargs == ExecuteArgs(PYODBC_DICT, params)
        sel == <<"cursor", "execute", "fetchall">>
        com == <<"cursor", "execute", "commit">>
    IN  IF conn = NoConnection
        THEN Failed(PYODBC_DICT, AttributeErrorOnNone, <<>>, <<"DEBUG">>, NoParams, NoResultSet)
        ELSE IF fail.at = "cursor"
        THEN Failed(PYODBC_DICT, fail.exc, <<"cursor">>, <<"DEBUG">>, NoParams, NoResultSet)
        ELSE IF fail.at = "execute"
        THEN Failed(PYODBC_DICT, fail.exc, <<"cursor", "execute">>, <<"DEBUG">>, xargs,
                    NoResultSet)
        ELSE IF SelectInQuery(q)
        THEN IF ~IsSelectStatement(q)
             THEN Failed(PYODBC_DICT, Exc("TypeError", "python", "none"),
                         <<"cursor", "execute">>, <<"DEBUG">>, xargs, NoResultSet)
             ELSE IF fail.at = "fetchall"
             THEN Failed(PYODBC_DICT, fail.exc, sel, <<"DEBUG">>, xargs, NoResultSet)
             ELSE Returned(Value("list", rs.columns,
                                 [i \in 1..Len(rs.rows) |-> ZipDict(rs.columns, rs.rows[i])]),
                           sel, <<"DEBUG", "INFO">>, xargs, rs)
        ELSE IF fail.at = "commit"
        THEN Failed(PYODBC_DICT, fail.exc, com, <<"DEBUG">>, xargs, NoResultSet)
        ELSE Returned(ReturnsNone, com, <<"DEBUG", "INFO">>, xargs, NoResultSet)

\* the SQL files execute_query_from_file may be pointed at: one per statement,
\* and a path where no file is
SqlFiles == {NoSqlFile} \cup {SqlFile(TRUE, q) : q \in Queries}

\* the except clauses of execute_query_from_file: a FileNotFoundError is logged
\* and raised again, a pyodbc.Error is logged and replaced by a RuntimeError
\* chained to it, anything else propagates untouched
FromFileExcept(e) ==
    IF e.type = "FileNotFoundError"
    THEN [raised |-> e, log |-> <<"ERROR">>]
    ELSE IF IsPyodbcError(e.type)
    THEN [raised |-> Exc("RuntimeError", "connector", e.type), log |-> <<"ERROR">>]
    ELSE [raised |-> e, log |-> <<>>]

\* execute_query_from_file ends by raising e
FailedFromFile(e, drv, log0, xargs) ==
    LET x == FromFileExcept(e)
    IN  [raised |-> x.raised, ret |-> NoValue, drv |-> drv, log |-> log0 \o x.log,
         executeArgs |-> xargs,
         driverRaised |-> IF e.by = "driver" THEN e ELSE NoExc,
         resultSet |-> NoResultSet]

\* faulty variant: a path without a file is taken for a statement that returns
\* nothing, and the file's statement is never committed
ExecuteFromFileLenient(conn, file, params, fail, rs) ==
    IF ~file.exists
    THEN Returned(ReturnsNone, <<>>, <<"DEBUG">>, NoParams, NoResultSet)
    ELSE IF conn = NoConnection
    THEN FailedFromFile(AttributeErrorOnNone, <<>>, <<"DEBUG", "DEBUG">>, NoParams)
    ELSE Returned(ReturnsNone, <<"cursor", "execute">>, <<"DEBUG", "DEBUG", "INFO">>,
                  ExecuteArgs(PYODBC_DICT, params), NoResultSet)

\* SQLDatabaseConnectorDict.execute_query_from_file(file_path, params)
ExecuteFromFilePyodbcDict(conn, file, params, fail, rs) ==
    LET xargs == [given |-> TRUE, values |-> params.values]   \* params or []
        query == file.content                                 \* file.read()
        sel == <<"cursor", "execute", "fetchall">>
        com == <<"cursor", "execute", "commit">>
        log2 == <<"DEBUG", "DEBUG">>
    IN  IF ~file.exists
        THEN FailedFromFile(Exc("FileNotFoundError", "python", "none"), <<>>, <<"DEBUG">>,
                            NoParams)
        ELSE IF conn = NoConnection
        THEN FailedFromFile(AttributeErrorOnNone, <<>>, log2, NoParams)
        ELSE IF fail.at = "cursor"
        THEN FailedFromFile(fail.exc, <<"cursor">>, log2, NoParams)
        ELSE IF fail.at = "execute"
        THEN FailedFromFile(fail.exc, <<"cursor", "execute">>, log2, xargs)
        ELSE IF SelectInQuery(query)
        THEN IF ~IsSelectStatement(query)
             THEN FailedFromFile(Exc("TypeError", "python", "none"),
                                 <<"cursor", "execute">>, log2, xargs)
             ELSE IF fail.at = "fetchall"
             THEN FailedFromFile(fail.exc, sel, log2, xargs)
             ELSE Returned(Value("list", rs.columns,
                                 [i \in 1..Len(rs.rows) |-> ZipDict(rs.columns, rs.rows[i])]),
                           sel, log2 \o <<"INFO">>, xargs, rs)
        ELSE IF fail.at = "commit"
        THEN FailedFromFile(fail.exc, com, log2, xargs)
        ELSE Returned(ReturnsNone, com, log2 \o <<"INFO">>, xargs, NoResultSet)

ExecuteResult(v, conn, q, params, fail, rs) ==
    CASE v = SDC         -> ExecuteSdc(conn, q, fail, rs)
      [] v = PYMSSQL     -> ExecutePymssql(conn, q, params, fail, rs)
      [] v = PYODBC      -> ExecutePyodbc(conn, q, params, fail, rs)
      [] v = PYODBC_DICT -> ExecutePyodbcDict(conn, q, params, fail, rs)

\* the file manager is not in use
FileParked ==
    /\ folder = {}
    /\ caseSensitive = TRUE
    /\ clock = 0
    /\ w_pc = "parked"
    /\ w_ext = <<>>
    /\ w_timeout = 0
    /\ w_start = 0
    /\ w_polls = <<>>

\* a connector right after __init__, for each class and each way to fill its
\* optional arguments
SqlInit ==
    /\ variant \in Variants
    /\ IF variant \in PymssqlVariants
       THEN /\ database \in {NONE, "", "example_db"}
            /\ use_windows_auth = FALSE
            /\ username = "user"
            /\ password = "password"
       ELSE /\ database = "example_db"
            /\ use_windows_auth \in BOOLEAN
            /\ username \in {NONE, "", "user"}
            /\ password \in {NONE, "", "password"}
    /\ connection = NoConnection
    /\ handles = 0
    /\ call = NoCall
    /\ FileParked
    /\ EmailParked
    /\ SftpParked
    /\ SeleniumParked
    /\ LogParked
    /\ BitrixParked

SqlConnect ==
    /\ variant # "none"
    /\ call.op = "none"
    /\ handles < MaxHandles
    /\ \E outcome \in {f.exc : f \in Fails(variant, {"connect"})} :
         LET r == ConnectResult(variant, connection, outcome, handles + 1)
         IN  /\ connection' = r.connection
             /\ handles' = IF r.driverReturned # NoConnection THEN handles + 1 ELSE handles
             /\ call' = [NoCall EXCEPT !.op = "connect", !.hadConn = connection,
                            !.raised = r.raised, !.log = r.log, !.drv = r.drv,
                            !.connectArgs = r.connectArgs,
                            !.driverRaised = r.driverRaised,
                            !.driverReturned = r.driverReturned]
    /\ UNCHANGED <<variant, database, use_windows_auth, username, password>>
    /\ UNCHANGED otherThanSql

SqlDisconnect ==
    /\ variant # "none"
    /\ call.op = "none"
    /\ \E outcome \in {f.exc : f \in Fails(variant, {"close"})} :
         LET r == DisconnectResult(variant, connection, outcome)
         IN  /\ connection' = r.connection
             /\ call' = [NoCall EXCEPT !.op = "disconnect", !.hadConn = connection,
                            !.raised = r.raised, !.log = r.log, !.drv = r.drv,
                            !.driverRaised = r.driverRaised,
                            !.ret = IF r.raised = NoExc THEN ReturnsNone ELSE NoValue]
    /\ UNCHANGED <<variant, database, use_windows_auth, username, password, handles>>
    /\ UNCHANGED otherThanSql

SqlExecuteQuery ==
    /\ variant # "none"
    /\ call.op = "none"
    /\ \E q \in Queries, params \in ParamsTried,
          fail \in Fails(variant, DriverSteps(variant)), rs \in ResultSets :
         /\ (variant = SDC => params = NoParams)
         /\ LET r == ExecuteResult(variant, connection, q, params, fail, rs)
            IN  call' = [NoCall EXCEPT !.op = "execute_query", !.query = q,
                            !.params = params, !.hadConn = connection,
                            !.raised = r.raised, !.ret = r.ret, !.log = r.log,
                            !.drv = r.drv, !.executeArgs = r.executeArgs,
                            !.driverRaised = r.driverRaised,
                            !.resultSet = r.resultSet]
    /\ UNCHANGED <<variant, database, use_windows_auth, username, password,
                   connection, handles>>
    /\ UNCHANGED otherThanSql

\* execute_query_from_file exists in the list-of-dict connector only
SqlExecuteQueryFromFile ==
    /\ variant = PYODBC_DICT
    /\ call.op = "none"
    /\ \E file \in SqlFiles, params \in ParamsTried,
          fail \in Fails(variant, DriverSteps(variant)), rs \in ResultSets :
         LET r == ExecuteFromFilePyodbcDict(connection, file, params, fail, rs)
         IN  call' = [NoCall EXCEPT !.op = "execute_query_from_file", !.file = file,
                         !.query = file.content,
                         !.params = params, !.hadConn = connection,
                         !.raised = r.raised, !.ret = r.ret, !.log = r.log,
                         !.drv = r.drv, !.executeArgs = r.executeArgs,
                         !.driverRaised = r.driverRaised,
                         !.resultSet = r.resultSet,
                         !.fail = fail]
    /\ UNCHANGED <<variant, database, use_windows_auth, username, password,
                   connection, handles>>
    /\ UNCHANGED otherThanSql

\* the caller takes the outcome of the call and goes on to its next call
SqlCallerResumes ==
    /\ variant # "none"
    /\ call.op # "none"
    /\ call' = NoCall
    /\ UNCHANGED <<variant, database, use_windows_auth, username, password,
                   connection, handles>>
    /\ UNCHANGED otherThanSql

SqlNext ==
    \/ SqlConnect
    \/ SqlDisconnect
    \/ SqlExecuteQuery
    \/ SqlExecuteQueryFromFile
    \/ SqlCallerResumes

SqlSpec == SqlInit /\ [][SqlNext]_vars

(***************************************************************************)
(* SQL Server connectors: claims                                           *)
(***************************************************************************)

\* how often x occurs in seq
Count(seq, x) == Cardinality({i \in 1..Len(seq) : seq[i] = x})

\* the keys of a sequence of <<key, value>> pairs
KeysOf(pairs) == {pairs[i][1] : i \in 1..Len(pairs)}

\* C4: sql_database_connector's disconnect(), on a connector that holds a
\* connection, calls close() exactly once and, once close() has returned,
\* leaves connection None; on a connector whose connection is None it makes no
\* driver call and returns without error.
C4DisconnectClosesAndClears ==
    (variant = SDC /\ call.op = "disconnect") =>
        IF call.hadConn # NoConnection
        THEN /\ Count(call.drv, "close") = 1
             /\ call.raised = NoExc => connection = NoConnection
        ELSE /\ call.drv = <<>>
             /\ call.raised = NoExc

\* C5: in the pymssql connectors, a connect() on which the driver succeeds
\* returns normally having called the driver once and leaves in connection the
\* handle the driver returned, which is not None; the database keyword is
\* passed to the driver exactly when a non-empty database name was given, and
\* then with that name.
C5ConnectStoresDriverHandle ==
    (variant \in PymssqlVariants /\ call.op = "connect" /\ call.driverRaised = NoExc) =>
        /\ call.raised = NoExc
        /\ Count(call.drv, "connect") = 1
        /\ call.driverReturned # NoConnection
        /\ connection = call.driverReturned
        /\ ("database" \in KeysOf(call.connectArgs)) <=> (database \notin {NONE, ""})
        /\ "database" \in KeysOf(call.connectArgs) =>
               <<"database", database>> \in {call.connectArgs[i] : i \in 1..Len(call.connectArgs)}
        /\ KeysOf(call.connectArgs) \ {"database"} = {"server", "user", "password"}

\* a successful connect() of a connector built without a database name
C5Witness ==
    /\ variant = SDC
    /\ call.op = "connect"
    /\ call.raised = NoExc
    /\ database = NONE
    /\ connection # NoConnection
    /\ "database" \notin KeysOf(call.connectArgs)

C7CallerReceivesPyodbcError ==
    (/\ variant \in PyodbcVariants
     /\ call.op \in {"connect", "disconnect", "execute_query"}
     /\ IsPyodbcError(call.driverRaised.type)) =>
        IsPyodbcError(call.raised.type)

\* C8: sql_server_pyodbc's execute_query returns, for every SELECT statement
\* the driver executes and fetches without error, a DataFrame holding the
\* fetched rows under the cursor's column names, also when no row was fetched;
\* it returns None only for statements that are not SELECT statements.
C8SelectReturnsDataFrame ==
    (variant = PYODBC /\ call.op = "execute_query" /\ call.hadConn # NoConnection) =>
        /\ (IsSelectStatement(call.query) /\ call.driverRaised = NoExc) =>
               /\ call.raised = NoExc
               /\ call.ret = Value("DataFrame", call.resultSet.columns, call.resultSet.rows)
        /\ call.ret.kind = "None" => ~IsSelectStatement(call.query)

\* C9: in sql_server_pymssql and both pyodbc connectors, a statement that is
\* not a SELECT statement and that the driver executed without error is
\* followed by exactly one commit() before execute_query ends, and a SELECT
\* statement is followed by none.
C9NonSelectCommittedOnce ==
    (/\ variant \in {PYMSSQL, PYODBC, PYODBC_DICT}
     /\ call.op = "execute_query"
     /\ Count(call.drv, "execute") = 1
     /\ (call.drv[Len(call.drv)] = "execute" => call.driverRaised = NoExc)) =>
        IF IsSelectStatement(call.query)
        THEN Count(call.drv, "commit") = 0
        ELSE Count(call.drv, "commit") = 1

\* C10: in the pyodbc connectors, connect() without Windows authentication and
\* with a username or password that is None or empty raises ValueError, makes
\* no driver call and leaves connection as it was; with Windows authentication
\* it never raises ValueError, calls the driver once, and the connection
\* string carries neither a UID nor a PWD part.
C10CredentialsCheckedBeforeDriver ==
    (variant \in PyodbcVariants /\ call.op = "connect") =>
        /\ (~use_windows_auth /\ (username \in {NONE, ""} \/ password \in {NONE, ""})) =>
               /\ call.raised = Exc("ValueError", "connector", "none")
               /\ call.drv = <<>>
               /\ connection = call.hadConn
        /\ (~use_windows_auth /\ username \notin {NONE, ""} /\ password \notin {NONE, ""}) =>
               /\ call.drv = <<"connect">>
               /\ <<"UID", username>> \in {call.connectArgs[i] : i \in 1..Len(call.connectArgs)}
               /\ <<"PWD", password>> \in {call.connectArgs[i] : i \in 1..Len(call.connectArgs)}
        /\ use_windows_auth =>
               /\ call.raised.type # "ValueError"
               /\ call.drv = <<"connect">>
               /\ KeysOf(call.connectArgs) \cap {"UID", "PWD"} = {}
               /\ KeysOf(call.connectArgs) =
                      {"DRIVER", "SERVER", "DATABASE", "Trusted_Connection"}

\* a connect() refused because only the password is empty
C10Witness ==
    /\ variant \in PyodbcVariants
    /\ call.op = "connect"
    /\ ~use_windows_auth
    /\ username = "user"
    /\ password = ""
    /\ call.raised.type = "ValueError"
    /\ call.drv = <<>>

\* C11: execute_query_from_file(path, params) of the list-of-dict connector
\* ends as execute_query(q, params) ends when q is the file's content and the
\* driver behaves alike: the same return value, the same calls on the
\* connection (commit included), the same exception type for the caller; and
\* when no file is at the path the caller receives FileNotFoundError and no
\* call is made on the connection.
C11FromFileAgreesWithExecuteQuery ==
    (variant = PYODBC_DICT /\ call.op = "execute_query_from_file") =>
        IF call.file.exists
        THEN LET r == ExecutePyodbcDict(call.hadConn, call.file.content, call.params,
                                        call.fail, call.resultSet)
             IN  /\ call.ret = r.ret
                 /\ call.drv = r.drv
                 /\ call.executeArgs = r.executeArgs
                 /\ call.raised = r.raised
        ELSE /\ call.raised.type = "FileNotFoundError"
             /\ call.drv = <<>>
             /\ call.ret = NoValue

\* a statement read from a file was executed and committed on a live connection
C11Witness ==
    /\ variant = PYODBC_DICT
    /\ call.op = "execute_query_from_file"
    /\ call.file = SqlFile(TRUE, Q_Insert)
    /\ call.hadConn # NoConnection
    /\ call.drv = <<"cursor", "execute", "commit">>
    /\ call.ret = ReturnsNone

(***************************************************************************)
(* EmailManager                                                            *)
(***************************************************************************)

MaxSent == 2   \* messages the SMTP server accepts in one run

Sender == "sender@example.com"
To_addr == "to@example.com"
Cc_addr == "cc@example.com"
Bcc_addr == "bcc@example.com"

\* the first character class of _check_filename's pattern: [<>:"/\\|?*]
SpecialChars == {"<", ">", ":", "\"", "/", "\\", "|", "?", "*"}

\* the second character class of the pattern, by code point
ListedAccents ==
    {"U+00E1", "U+00E9", "U+00ED", "U+00F3", "U+00FA", "U+00E0", "U+00E8", "U+00EC",
     "U+00F2", "U+00F9", "U+00E2", "U+00EA", "U+00EE", "U+00F4", "U+00FB", "U+00E3",
     "U+00F5", "U+00E4", "U+00EB", "U+00EF", "U+00F6", "U+00FC", "U+00E7", "U+00C1",
     "U+00C9", "U+00CD", "U+00D3", "U+00DA", "U+00C0", "U+00C8", "U+00CC", "U+00D2",
     "U+00D9", "U+00C2", "U+00CA", "U+00CE", "U+00D4", "U+00DB", "U+00C3", "U+00D5",
     "U+00C4", "U+00CB", "U+00CF", "U+00D6", "U+00DC", "U+00C7"}

\* re.search(pattern, filename)
PatternFound(filename) ==
    \E i \in 1..Len(filename) : filename[i] \in SpecialChars \cup ListedAccents

\* EmailManager._check_filename(filename)
CheckFilename(filename) ==
    IF PatternFound(filename)
    THEN [raised |-> Exc("ValueError", "_check_filename", "none"), ret |-> "novalue"]
    ELSE [raised |-> NoExc, ret |-> "True"]

\* attachment names: report.pdf, relat(o-acute)rio.pdf, a?.pdf, a(n-tilde)o.pdf
Fn_report    == <<"r", "e", "p", "o", "r", "t", ".", "p", "d", "f">>
Fn_relatorio == <<"r", "e", "l", "a", "t", "U+00F3", "r", "i", "o", ".", "p", "d", "f">>
Fn_question  == <<"a", "?", ".", "p", "d", "f">>
Fn_ano       == <<"a", "U+00F1", "o", ".", "p", "d", "f">>

\* a path as the file system answers for it: os.path.exists, and what
\* open(...).read() does ("ok" or the OSError it raises)
Attachment(name, exists, read) == [name |-> name, exists |-> exists, read |-> read]
GoodAttachment == Attachment(Fn_report, TRUE, "ok")
Attachments ==
    {GoodAttachment,
     Attachment(Fn_report, FALSE, "ok"),
     Attachment(Fn_report, TRUE, "PermissionError"),
     Attachment(Fn_relatorio, TRUE, "ok"),
     Attachment(Fn_question, TRUE, "ok"),
     Attachment(Fn_ano, TRUE, "ok")}

\* file_paths arguments a caller may pass: None, [], one path, a good path and another
FilePathsTried ==
    {NoList, List(<<>>)} \cup {List(<<f>>) : f \in Attachments}
        \cup {List(<<GoodAttachment, f>>) : f \in Attachments}

\* cc_email / bcc_email arguments: None, [] and one address
OptionalAddresses(addr) == {NoList, List(<<>>), List(<<addr>>)}

\* cc_email or [], bcc_email or []
OrEmpty(arg) == arg.values

\* issubclass(type, smtplib.SMTPException)
IsSMTPException(type) ==
    type \in {"smtplib.SMTPException", "smtplib.SMTPConnectError",
              "smtplib.SMTPNotSupportedError", "smtplib.SMTPAuthenticationError",
              "smtplib.SMTPRecipientsRefused", "smtplib.SMTPServerDisconnected"}

\* issubclass(type, IOError); IOError is OSError, and SMTPException derives from it
IsIOError(type) ==
    \/ IsSMTPException(type)
    \/ type \in {"IOError", "FileNotFoundError", "PermissionError", "ConnectionRefusedError"}

\* the except clauses of send_email, in their order: each logs the exception
\* and raises a new one of the clause's own class
SendEmailExcept(e) ==
    IF e.type = "FileNotFoundError" THEN Exc("FileNotFoundError", "send_email", "none")
    ELSE IF IsSMTPException(e.type) THEN Exc("smtplib.SMTPException", "send_email", "none")
    ELSE IF IsIOError(e.type) THEN Exc("IOError", "send_email", "none")
    ELSE Exc("Exception", "send_email", "none")

\* the calls made on smtplib, in order
SmtpSteps == <<"SMTP", "starttls", "login", "sendmail">>

\* where, if anywhere, smtplib fails during one call, and with what
SmtpFails ==
    {NoFail} \cup
    {[at |-> "SMTP", exc |-> Exc("ConnectionRefusedError", "smtplib", "none")],
     [at |-> "SMTP", exc |-> Exc("smtplib.SMTPConnectError", "smtplib", "none")],
     [at |-> "starttls", exc |-> Exc("smtplib.SMTPNotSupportedError", "smtplib", "none")],
     [at |-> "login", exc |-> Exc("smtplib.SMTPAuthenticationError", "smtplib", "none")],
     [at |-> "sendmail", exc |-> Exc("smtplib.SMTPRecipientsRefused", "smtplib", "none")],
     [at |-> "sendmail", exc |-> Exc("smtplib.SMTPServerDisconnected", "smtplib", "none")]}

\* the loop over file_paths from its i-th path on: check the name, test that
\* the path exists, read it, attach it
RECURSIVE AttachFrom(_, _, _, _)
AttachFrom(paths, i, attached, checked) ==
    IF i > Len(paths)
    THEN [exc |-> NoExc, at |-> "none", attached |-> attached, checked |-> checked]
    ELSE LET f == paths[i]
             chk == CheckFilename(f.name)
             seen == Append(checked, [filename |-> f.name, raised |-> chk.raised,
                                      ret |-> chk.ret])
         IN  IF chk.raised # NoExc
             THEN [exc |-> chk.raised, at |-> "check", attached |-> attached,
                   checked |-> seen]
             ELSE IF ~f.exists
             THEN [exc |-> Exc("FileNotFoundError", "send_email", "none"), at |-> "exists",
                   attached |-> attached, checked |-> seen]
             ELSE IF f.read # "ok"
             THEN [exc |-> Exc(f.read, "open", "none"), at |-> "read",
                   attached |-> attached, checked |-> seen]
             ELSE AttachFrom(paths, i + 1, Append(attached, f.name), seen)

\* index of the step of SmtpSteps named at
StepIndex(at) == CHOOSE i \in 1..Len(SmtpSteps) : SmtpSteps[i] = at

\* the smtplib calls made when the library fails as fail says
SmtpCalls(fail) ==
    IF fail = NoFail THEN SmtpSteps ELSE SubSeq(SmtpSteps, 1, StepIndex(fail.at))

\* EmailManager.send_email(html_template, subject, email_receivers, cc_email,
\* bcc_email, file_paths) when smtplib behaves as fail says
SendEmail(email_receivers, cc_email, bcc_email, file_paths, fail) ==
    LET cc == OrEmpty(cc_email)
        bcc == OrEmpty(bcc_email)
        headers == [From |-> Sender, To |-> email_receivers, Cc |-> cc, Bcc |-> bcc,
                    attachments |-> <<>>]
        att == IF file_paths.values # <<>>
               THEN AttachFrom(file_paths.values, 1, <<>>, <<>>)
               ELSE AttachFrom(<<>>, 1, <<>>, <<>>)
        message == [headers EXCEPT !.attachments = att.attached]
        prepared == <<"INFO">> \o [i \in 1..Len(att.attached) |-> "INFO"]
    IN  IF att.exc # NoExc
        THEN [checked |-> att.checked, failedAt |-> att.at, inner |-> att.exc,
              raised |-> SendEmailExcept(att.exc), smtp |-> <<>>, envelope |-> <<>>,
              message |-> NoMessage, log |-> prepared \o <<"ERROR">>]
        ELSE IF fail # NoFail
        THEN [checked |-> att.checked, failedAt |-> "smtp", inner |-> fail.exc,
              raised |-> SendEmailExcept(fail.exc), smtp |-> SmtpCalls(fail),
              envelope |-> IF fail.at = "sendmail" THEN email_receivers \o cc \o bcc
                           ELSE <<>>,
              message |-> IF fail.at = "sendmail" THEN message ELSE NoMessage,
              log |-> prepared \o <<"ERROR">>]
        ELSE [checked |-> att.checked, failedAt |-> "none", inner |-> NoExc,
              raised |-> NoExc, smtp |-> SmtpCalls(fail),
              envelope |-> email_receivers \o cc \o bcc,
              message |-> message, log |-> prepared \o <<"INFO">>]

\* an EmailManager right after __init__; nothing has been sent
EmailInit ==
    /\ e_call = NoEmailCall
    /\ e_sent = 0
    /\ FileParked
    /\ SqlParked
    /\ SftpParked
    /\ SeleniumParked
    /\ LogParked
    /\ BitrixParked

EmailSend ==
    /\ e_call.op = "none"
    /\ e_sent < MaxSent
    /\ \E cc_email \in OptionalAddresses(Cc_addr), bcc_email \in OptionalAddresses(Bcc_addr),
          file_paths \in FilePathsTried, fail \in SmtpFails :
         LET r == SendEmail(<<To_addr>>, cc_email, bcc_email, file_paths, fail)
         IN  /\ e_call' = [op |-> "send_email", email_receivers |-> <<To_addr>>,
                           cc_email |-> cc_email, bcc_email |-> bcc_email,
                           file_paths |-> file_paths, checked |-> r.checked,
                           failedAt |-> r.failedAt, inner |-> r.inner,
                           raised |-> r.raised, smtp |-> r.smtp,
                           envelope |-> r.envelope, message |-> r.message,
                           log |-> r.log]
             /\ e_sent' = IF r.raised = NoExc THEN e_sent + 1 ELSE e_sent
    /\ UNCHANGED otherThanEmail

\* the caller takes the outcome of the call and goes on
EmailCallerResumes ==
    /\ e_call.op # "none"
    /\ e_call' = NoEmailCall
    /\ UNCHANGED e_sent
    /\ UNCHANGED otherThanEmail

EmailNext ==
    \/ EmailSend
    \/ EmailCallerResumes

EmailSpec == EmailInit /\ [][EmailNext]_vars

(***************************************************************************)
(* EmailManager: claims                                                    *)
(***************************************************************************)

\* the elements of a sequence
Range(seq) == {seq[i] : i \in 1..Len(seq)}

\* C12: send_email reports every failure as the documented kind: a missing
\* attachment file as FileNotFoundError, a failure of the SMTP exchange as
\* smtplib.SMTPException, an I/O error while reading an attachment as IOError
\* and any other failure as Exception; no failure is swallowed, and sendmail
\* is attempted at most once per call.
C12FailuresReportedAsDocumented ==
    e_call.op = "send_email" =>
        /\ e_call.failedAt = "exists" => e_call.raised.type = "FileNotFoundError"
        /\ e_call.failedAt = "smtp" => e_call.raised.type = "smtplib.SMTPException"
        /\ e_call.failedAt = "read" => e_call.raised.type = "IOError"
        /\ e_call.failedAt = "check" => e_call.raised.type = "Exception"
        /\ e_call.failedAt # "none" => e_call.raised # NoExc
        /\ Count(e_call.smtp, "sendmail") <= 1

\* every address that occurs in the text handed to sendmail (message.as_string())
AddressesInText(message) ==
    {message.From} \cup Range(message.To) \cup Range(message.Cc) \cup Range(message.Bcc)

\* C13: a send_email that succeeds hands the message to the server for every
\* address in email_receivers, cc_email and bcc_email, and no address of
\* bcc_email occurs in the transmitted message text.
C13BccIsBlind ==
    (e_call.op = "send_email" /\ e_call.raised = NoExc) =>
        /\ Range(e_call.envelope) =
               Range(e_call.email_receivers) \cup Range(OrEmpty(e_call.cc_email))
                   \cup Range(OrEmpty(e_call.bcc_email))
        /\ \A a \in Range(OrEmpty(e_call.bcc_email)) :
               a \notin AddressesInText(e_call.message)

\* letters that carry a diacritic, among the code points the model uses:
\* o-acute (U+00F3) and n-tilde (U+00F1)
AccentedLetters == ListedAccents \cup {"U+00F1", "U+00D1"}

\* the filename contains a special or an accented character
HasSpecialOrAccented(filename) ==
    \E i \in 1..Len(filename) : filename[i] \in SpecialChars \cup AccentedLetters

\* C14: _check_filename returns True for a filename without special or
\* accented character and raises ValueError for a filename with one; when
\* send_email meets such an attachment name the caller receives that
\* ValueError, no SMTP connection is opened and no message is sent.
C14BadFilenameIsValueError ==
    e_call.op = "send_email" =>
        /\ \A i \in 1..Len(e_call.checked) :
               IF HasSpecialOrAccented(e_call.checked[i].filename)
               THEN e_call.checked[i].raised.type = "ValueError"
               ELSE e_call.checked[i].ret = "True"
        /\ (\E i \in 1..Len(e_call.checked) :
                HasSpecialOrAccented(e_call.checked[i].filename)) =>
               /\ e_call.raised.type = "ValueError"
               /\ e_call.smtp = <<>>
               /\ e_call.message = NoMessage

(***************************************************************************)
(* SFTPManager                                                             *)
(***************************************************************************)

\* what a path may hold
Contents == {"absent", "text 1", "text 2"}

\* isinstance(e, paramiko.SSHException)
IsSSHException(type) ==
    type \in {"paramiko.SSHException", "paramiko.AuthenticationException"}

\* isinstance(e, IOError): IOError is OSError
IsOSError(type) == type \in {"IOError", "OSError", "FileNotFoundError"}

\* the except clauses of disconnect: AttributeError, IOError and SSHException
\* are logged and raised again; the last clause only logs
SftpDisconnectExcept(e) ==
    IF e.type = "AttributeError" \/ IsOSError(e.type) \/ IsSSHException(e.type)
    THEN [raised |-> e, log |-> <<"ERROR">>]
    ELSE [raised |-> NoExc, log |-> <<"ERROR">>]

\* the except clauses of copy_file: SSHException, SFTPError and OSError are
\* logged and raised again; anything else propagates untouched
SftpCopyExcept(e) ==
    IF IsSSHException(e.type) \/ e.type = "paramiko.SFTPError" \/ IsOSError(e.type)
    THEN [raised |-> e, log |-> <<"ERROR">>]
    ELSE [raised |-> e, log |-> <<>>]

\* where, if anywhere, paramiko fails while closing, and with what
CloseFails ==
    {NoFail} \cup
    {[at |-> a, exc |-> Exc(t, "paramiko", "none")] :
        a \in {"sftp.close", "transport.close"},
        t \in {"AttributeError", "IOError", "paramiko.SSHException", "RuntimeError"}}

\* SFTPManager.disconnect() when paramiko behaves as fail says
SftpDisconnectResult(tr, sf, fail) ==
    LET closeSftp == sf # "None"           \* if self.sftp:
        closeTransport == tr # "None"      \* if self.transport:
    IN  IF closeSftp /\ fail.at = "sftp.close"
        THEN LET x == SftpDisconnectExcept(fail.exc)
             IN  [raised |-> x.raised, inner |-> fail.exc, log |-> x.log,
                  calls |-> <<"sftp.close">>, sftp |-> sf, transport |-> tr]
        ELSE IF closeTransport /\ fail.at = "transport.close"
        THEN LET x == SftpDisconnectExcept(fail.exc)
             IN  [raised |-> x.raised, inner |-> fail.exc, log |-> x.log,
                  calls |-> (IF closeSftp THEN <<"sftp.close">> ELSE <<>>)
                               \o <<"transport.close">>,
                  sftp |-> IF closeSftp THEN "closed" ELSE sf, transport |-> tr]
        ELSE [raised |-> NoExc, inner |-> NoExc, log |-> <<>>,
              calls |-> (IF closeSftp THEN <<"sftp.close">> ELSE <<>>)
                           \o (IF closeTransport THEN <<"transport.close">> ELSE <<>>),
              sftp |-> IF closeSftp THEN "closed" ELSE sf,
              transport |-> IF closeTransport THEN "closed" ELSE tr]

\* what put can fail with on the way to the server
PutFails ==
    {NoFail} \cup
    {[at |-> "put", exc |-> Exc(t, "paramiko", "none")] :
        t \in {"paramiko.SSHException", "IOError"}}

\* paramiko's SFTPClient.put(localpath, remotepath): reads the LOCAL file
\* localpath and writes its content to remotepath on the server
SftpPut(sf, local, server, localpath, remotepath, fail) ==
    IF sf # "open"      \* a closed client cannot transfer: the call fails
    THEN [exc |-> fail.exc, server |-> server, localRead |-> {}]
    ELSE IF local[localpath] = "absent"
    THEN [exc |-> Exc("FileNotFoundError", "open", "none"), server |-> server,
          localRead |-> {localpath}]
    ELSE IF fail # NoFail
    THEN [exc |-> fail.exc, server |-> server, localRead |-> {localpath}]
    ELSE [exc |-> NoExc, server |-> [server EXCEPT ![remotepath] = local[localpath]],
          localRead |-> {localpath}]

\* SFTPManager.copy_file(source_path, destination_path)
SftpCopyResult(sf, local, server, source_path, destination_path, fail) ==
    LET put == SftpPut(sf, local, server, source_path, destination_path, fail)
        x == SftpCopyExcept(put.exc)
    IN  IF put.exc # NoExc
        THEN [raised |-> x.raised, inner |-> put.exc, log |-> x.log, server |-> put.server,
              localRead |-> put.localRead]
        ELSE [raised |-> NoExc, inner |-> NoExc, log |-> <<>>, server |-> put.server,
              localRead |-> put.localRead]

\* an SFTPManager right after __init__, which connects; the files that exist
\* locally and on the server are whatever they are
SftpInit ==
    /\ transport = "open"
    /\ sftp = "open"
    /\ local_fs \in [Paths -> Contents]
    /\ server_fs \in [Paths -> Contents]
    /\ s_call = NoSftpCall
    /\ FileParked
    /\ SqlParked
    /\ EmailParked
    /\ SeleniumParked
    /\ LogParked
    /\ BitrixParked

SftpDisconnect ==
    /\ transport # "None"
    /\ s_call.op = "none"
    /\ \E fail \in CloseFails :
         LET r == SftpDisconnectResult(transport, sftp, fail)
         IN  /\ transport' = r.transport
             /\ sftp' = r.sftp
             /\ s_call' = [NoSftpCall EXCEPT !.op = "disconnect", !.inner = r.inner,
                              !.raised = r.raised, !.calls = r.calls, !.log = r.log,
                              !.serverBefore = server_fs]
    /\ UNCHANGED <<local_fs, server_fs>>
    /\ UNCHANGED otherThanSftp

SftpCopyFile ==
    /\ transport # "None"
    /\ s_call.op = "none"
    /\ \E source_path \in Paths, destination_path \in Paths, fail \in PutFails :
         /\ sftp # "open" => fail # NoFail
         /\ LET r == SftpCopyResult(sftp, local_fs, server_fs, source_path,
                                    destination_path, fail)
            IN  /\ server_fs' = r.server
                /\ s_call' = [NoSftpCall EXCEPT !.op = "copy_file",
                                 !.source_path = source_path,
                                 !.destination_path = destination_path,
                                 !.inner = r.inner, !.raised = r.raised,
                                 !.calls = <<"sftp.put">>, !.log = r.log,
                                 !.localRead = r.localRead,
                                 !.serverBefore = server_fs]
    /\ UNCHANGED <<transport, sftp, local_fs>>
    /\ UNCHANGED otherThanSftp

\* the caller takes the outcome of the call and goes on
SftpCallerResumes ==
    /\ transport # "None"
    /\ s_call.op # "none"
    /\ s_call' = NoSftpCall
    /\ UNCHANGED <<transport, sftp, local_fs, server_fs>>
    /\ UNCHANGED otherThanSftp

SftpNext ==
    \/ SftpDisconnect
    \/ SftpCopyFile
    \/ SftpCallerResumes

SftpSpec == SftpInit /\ [][SftpNext]_vars

(***************************************************************************)
(* SFTPManager: claims                                                     *)
(***************************************************************************)

\* C15: disconnect() raises to its caller every error that occurs while the
\* connection is closed: AttributeError, IOError, paramiko.SSHException and
\* any other unexpected exception.
C15DisconnectRaisesEveryError ==
    (s_call.op = "disconnect" /\ s_call.inner # NoExc) =>
        s_call.raised = s_call.inner

\* C16: copy_file(source_path, destination_path), when the server holds a file
\* at source_path and the transfer itself does not fail, leaves at
\* destination_path on the server the content the server had at source_path,
\* leaves the source file on the server, and reads no local file.
C16CopyIsServerToServer ==
    (/\ s_call.op = "copy_file"
     /\ s_call.serverBefore[s_call.source_path] # "absent"
     /\ s_call.inner.by # "paramiko") =>
        /\ s_call.raised = NoExc
        /\ server_fs[s_call.destination_path] = s_call.serverBefore[s_call.source_path]
        /\ server_fs[s_call.source_path] = s_call.serverBefore[s_call.source_path]
        /\ s_call.localRead = {}

(***************************************************************************)
(* SeleniumHelper                                                          *)
(***************************************************************************)

MaxWaitTimeout == 3     \* timeouts tried, in seconds: 0..MaxWaitTimeout
MaxPollOversleep == 1   \* half-seconds time.sleep may overshoot
PollHalfSeconds == 1    \* WebDriverWait's poll frequency: 0.5 s
HalfSecondsPerSecond == 2

\* one pass of WebDriverWait.until's loop body: presence_of_element_located
\* calls driver.find_element, whose NoSuchElementException the wait ignores
UntilPoll(present) ==
    IF present THEN "element" ELSE "ignored NoSuchElementException"

\* after the sleep: the wait goes on, or gives up with TimeoutException
UntilAfterSleep(elapsed, timeout) ==
    IF elapsed > HalfSecondsPerSecond * timeout
    THEN Exc("TimeoutException", "WebDriverWait.until", "none")
    ELSE NoExc

\* the except clause of is_element_present: NoSuchElementException only
IsElementPresentExcept(e) ==
    IF e.type = "NoSuchElementException"
    THEN [pc |-> "returned", ret |-> "False", raised |-> NoExc]
    ELSE [pc |-> "raised", ret |-> "novalue", raised |-> e]

\* a helper on a loaded page, with or without the element
SeleniumInit ==
    /\ page_has_element \in BOOLEAN
    /\ p_pc = "idle"
    /\ p_timeout = 0
    /\ p_elapsed = 0
    /\ p_polls = <<>>
    /\ p_ret = "novalue"
    /\ p_raised = NoExc
    /\ FileParked
    /\ SqlParked
    /\ EmailParked
    /\ SftpParked
    /\ LogParked
    /\ BitrixParked

\* is_element_present(by, locator, timeout) is called
IsElementPresentCall ==
    /\ p_pc = "idle"
    /\ \E timeout \in 0..MaxWaitTimeout : p_timeout' = timeout
    /\ p_pc' = "polling"
    /\ p_elapsed' = 0
    /\ p_polls' = <<>>
    /\ p_ret' = "novalue"
    /\ p_raised' = NoExc
    /\ UNCHANGED page_has_element
    /\ UNCHANGED otherThanSelenium

\* the wait looks for the element; finding it ends is_element_present with True
IsElementPresentPoll ==
    /\ p_pc = "polling"
    /\ p_polls' = Append(p_polls, page_has_element)
    /\ IF UntilPoll(page_has_element) = "element"
       THEN p_pc' = "returned" /\ p_ret' = "True"
       ELSE p_pc' = "sleeping" /\ p_ret' = p_ret
    /\ UNCHANGED <<page_has_element, p_timeout, p_elapsed, p_raised>>
    /\ UNCHANGED otherThanSelenium

\* the wait sleeps, then polls again or raises TimeoutException, which
\* reaches is_element_present's except clause
IsElementPresentSleep ==
    /\ p_pc = "sleeping"
    /\ \E over \in 0..MaxPollOversleep :
         LET now == p_elapsed + PollHalfSeconds + over
             e == UntilAfterSleep(now, p_timeout)
             x == IsElementPresentExcept(e)
         IN  /\ p_elapsed' = now
             /\ IF e = NoExc
                THEN p_pc' = "polling" /\ p_ret' = p_ret /\ p_raised' = p_raised
                ELSE p_pc' = x.pc /\ p_ret' = x.ret /\ p_raised' = x.raised
    /\ UNCHANGED <<page_has_element, p_timeout, p_polls>>
    /\ UNCHANGED otherThanSelenium

\* the page gains the element
ElementAppears ==
    /\ p_pc \in {"idle", "polling", "sleeping"}
    /\ ~page_has_element
    /\ page_has_element' = TRUE
    /\ UNCHANGED <<p_pc, p_timeout, p_elapsed, p_polls, p_ret, p_raised>>
    /\ UNCHANGED otherThanSelenium

\* the page loses the element
ElementDisappears ==
    /\ p_pc \in {"idle", "polling", "sleeping"}
    /\ page_has_element
    /\ page_has_element' = FALSE
    /\ UNCHANGED <<p_pc, p_timeout, p_elapsed, p_polls, p_ret, p_raised>>
    /\ UNCHANGED otherThanSelenium

\* the caller takes the outcome of the call and goes on
SeleniumCallerResumes ==
    /\ p_pc \in {"returned", "raised"}
    /\ p_pc' = "idle"
    /\ p_timeout' = 0
    /\ p_elapsed' = 0
    /\ p_polls' = <<>>
    /\ p_ret' = "novalue"
    /\ p_raised' = NoExc
    /\ UNCHANGED page_has_element
    /\ UNCHANGED otherThanSelenium

SeleniumNext ==
    \/ IsElementPresentCall
    \/ IsElementPresentPoll
    \/ IsElementPresentSleep
    \/ ElementAppears
    \/ ElementDisappears
    \/ SeleniumCallerResumes

SeleniumSpec == SeleniumInit /\ [][SeleniumNext]_vars

(***************************************************************************)
(* SeleniumHelper: claims                                                  *)
(***************************************************************************)

\* C17: is_element_present(by, locator, timeout) ends by returning True when
\* a poll within the timeout found the element and by returning False when
\* none did; it does not raise.
C17AbsentElementGivesFalse ==
    p_pc \in {"returned", "raised"} =>
        /\ p_raised = NoExc
        /\ p_ret = IF \E i \in 1..Len(p_polls) : p_polls[i] THEN "True" ELSE "False"

(***************************************************************************)
(* LoggerConfig                                                            *)
(***************************************************************************)

\* Loguru's levels and their severity numbers
LevelNo ==
    [TRACE |-> 5, DEBUG |-> 10, INFO |-> 20, SUCCESS |-> 25, WARNING |-> 30,
     ERROR |-> 40, CRITICAL |-> 50]
Levels == DOMAIN LevelNo

\* logger.add(sink, level=level)
Handler(sink, level) == [sink |-> sink, level |-> level]

\* LoggerConfig.configure_logger(): logger.remove(), then the handlers it adds
ConfigureLogger(e) ==
    (IF e = "development" THEN {Handler("console", "DEBUG")} ELSE {})
        \cup {Handler("general_log_file", "INFO"), Handler("error_log_file", "ERROR")}

\* Loguru hands a message to every handler whose level is not above the message's
SinksReceiving(hs, level) ==
    {h.sink : h \in {g \in hs : LevelNo[level] >= LevelNo[g.level]}}

\* a LoggerConfig right after __init__, which configures the logger
LogInit ==
    /\ env \in {"development", "production"}
    /\ handlers = ConfigureLogger(env)
    /\ emitted = {}
    /\ received = [s \in Sinks |-> {}]
    /\ FileParked
    /\ SqlParked
    /\ EmailParked
    /\ SftpParked
    /\ SeleniumParked
    /\ BitrixParked

\* configure_logger() is called again
LogConfigure ==
    /\ env # "none"
    /\ handlers' = ConfigureLogger(env)
    /\ UNCHANGED <<env, emitted, received>>
    /\ UNCHANGED otherThanLog

\* the application logs a message: logger.debug(...), logger.warning(...), ...
LogMessage ==
    /\ env # "none"
    /\ \E level \in Levels :
         /\ emitted' = emitted \cup {level}
         /\ received' = [s \in Sinks |->
                IF s \in SinksReceiving(handlers, level)
                THEN received[s] \cup {level} ELSE received[s]]
    /\ UNCHANGED <<env, handlers>>
    /\ UNCHANGED otherThanLog

LogNext ==
    \/ LogConfigure
    \/ LogMessage

LogSpec == LogInit /\ [][LogNext]_vars

(***************************************************************************)
(* LoggerConfig: claims                                                    *)
(***************************************************************************)

\* C18: of the messages logged after configuration, the error log file
\* receives exactly those of level WARNING, ERROR and CRITICAL, the general
\* log file exactly those of level INFO and above, and the console those of
\* level DEBUG and above when env is "development" and none when env is
\* "production".
C18SinksReceiveDocumentedLevels ==
    env # "none" =>
        /\ received["error_log_file"] = emitted \cap {"WARNING", "ERROR", "CRITICAL"}
        /\ received["general_log_file"] =
               {l \in emitted : LevelNo[l] >= LevelNo["INFO"]}
        /\ received["console"] =
               IF env = "development"
               THEN {l \in emitted : LevelNo[l] >= LevelNo["DEBUG"]}
               ELSE {}

(***************************************************************************)
(* Bitrix24API                                                             *)
(***************************************************************************)

MaxRequests == 3   \* HTTP requests issued in one run

\* webhook URLs, API methods and params dictionaries (as sets of key-value pairs)
WebhookUrls == {"https://example.bitrix24.com/rest/1/key", "https://example.bitrix24.com/rest/1/key/"}
ApiMethods == {"tasks.task.add", "tasks.task.get"}
ParamsDicts == {{}, {<<"taskId", 123>>}}

\* status codes the server may answer with
StatusCodes == {200, 204, 304, 399, 400, 404, 499, 500, 503, 599, 600}

\* what one HTTP exchange may come to: no response at all, or a response
HttpOutcomes ==
    {[transport |-> Exc("requests.ConnectionError", "requests", "none"),
      response |-> NoResponse]}
        \cup {[transport |-> NoExc, response |-> [status_code |-> c]] : c \in StatusCodes}

\* f"{self.webhook_url}/{method}"
Url(base, method) == <<base, "/", method>>

\* faulty variant: only client errors raise
RaiseForStatusClientOnly(status_code) ==
    IF 400 <= status_code /\ status_code < 500
    THEN Exc("requests.HTTPError", "raise_for_status", "none")
    ELSE NoExc

\* Response.raise_for_status(): HTTPError for 400 <= status_code < 600
RaiseForStatus(status_code) ==
    IF 400 <= status_code /\ status_code < 500
    THEN Exc("requests.HTTPError", "raise_for_status", "none")
    ELSE IF 500 <= status_code /\ status_code < 600
    THEN Exc("requests.HTTPError", "raise_for_status", "none")
    ELSE NoExc

\* the part both methods share once requests.post / requests.get was called
AfterRequest(request, outcome) ==
    IF outcome.transport # NoExc
    THEN [requests |-> <<request>>, response |-> NoResponse, ret |-> NoResponse,
          raised |-> outcome.transport]
    ELSE LET e == RaiseForStatus(outcome.response.status_code)
         IN  IF e # NoExc
             THEN [requests |-> <<request>>, response |-> outcome.response,
                   ret |-> NoResponse, raised |-> e]
             ELSE [requests |-> <<request>>, response |-> outcome.response,
                   ret |-> outcome.response, raised |-> NoExc]

\* Bitrix24API.send_post_request(method, params): requests.post(url, json=params)
SendPostRequest(base, method, params, outcome) ==
    AfterRequest([verb |-> "POST", url |-> Url(base, method), json |-> Arg(params),
                  params |-> NoArg], outcome)

\* Bitrix24API.send_get_request(method, params): requests.get(url, params=params)
SendGetRequest(base, method, params, outcome) ==
    AfterRequest([verb |-> "GET", url |-> Url(base, method), json |-> NoArg,
                  params |-> Arg(params)], outcome)

\* a Bitrix24API right after __init__
BitrixInit ==
    /\ webhook_url \in WebhookUrls
    /\ b_call = NoBitrixCall
    /\ b_issued = 0
    /\ FileParked
    /\ SqlParked
    /\ EmailParked
    /\ SftpParked
    /\ SeleniumParked
    /\ LogParked

BitrixSendPostRequest ==
    /\ webhook_url # ""
    /\ b_call.op = "none"
    /\ b_issued < MaxRequests
    /\ \E method \in ApiMethods, params \in ParamsDicts, outcome \in HttpOutcomes :
         LET r == SendPostRequest(webhook_url, method, params, outcome)
         IN  /\ b_call' = [op |-> "send_post_request", method |-> method,
                           params |-> params, requests |-> r.requests,
                           response |-> r.response, ret |-> r.ret, raised |-> r.raised]
             /\ b_issued' = b_issued + Len(r.requests)
    /\ UNCHANGED webhook_url
    /\ UNCHANGED otherThanBitrix

BitrixSendGetRequest ==
    /\ webhook_url # ""
    /\ b_call.op = "none"
    /\ b_issued < MaxRequests
    /\ \E method \in ApiMethods, params \in ParamsDicts, outcome \in HttpOutcomes :
         LET r == SendGetRequest(webhook_url, method, params, outcome)
         IN  /\ b_call' = [op |-> "send_get_request", method |-> method,
                           params |-> params, requests |-> r.requests,
                           response |-> r.response, ret |-> r.ret, raised |-> r.raised]
             /\ b_issued' = b_issued + Len(r.requests)
    /\ UNCHANGED webhook_url
    /\ UNCHANGED otherThanBitrix

\* the caller takes the outcome of the call and goes on
BitrixCallerResumes ==
    /\ webhook_url # ""
    /\ b_call.op # "none"
    /\ b_call' = NoBitrixCall
    /\ UNCHANGED <<webhook_url, b_issued>>
    /\ UNCHANGED otherThanBitrix

BitrixNext ==
    \/ BitrixSendPostRequest
    \/ BitrixSendGetRequest
    \/ BitrixCallerResumes

BitrixSpec == BitrixInit /\ [][BitrixNext]_vars

(***************************************************************************)
(* Bitrix24API: claims                                                     *)
(***************************************************************************)

\* a 4xx or 5xx status
IsErrorStatus(status_code) == status_code \in 400..599

\* C19: send_post_request and send_get_request issue exactly one HTTP request
\* per call, to webhook_url + "/" + method (POST with params as the JSON body,
\* GET with params as the query string); they return the response only when
\* its status is not a 4xx/5xx error, and raise instead of returning when it is.
C19OneRequestAndErrorsRaise ==
    b_call.op \in {"send_post_request", "send_get_request"} =>
        /\ Len(b_call.requests) = 1
        /\ b_call.requests[1].url = <<webhook_url, "/", b_call.method>>
        /\ IF b_call.op = "send_post_request"
           THEN /\ b_call.requests[1].verb = "POST"
                /\ b_call.requests[1].json = Arg(b_call.params)
                /\ b_call.requests[1].params = NoArg
           ELSE /\ b_call.requests[1].verb = "GET"
                /\ b_call.requests[1].params = Arg(b_call.params)
                /\ b_call.requests[1].json = NoArg
        /\ b_call.ret # NoResponse =>
               /\ b_call.ret = b_call.response
               /\ ~IsErrorStatus(b_call.response.status_code)
               /\ b_call.raised = NoExc
        /\ (b_call.response # NoResponse /\ IsErrorStatus(b_call.response.status_code)) =>
               /\ b_call.raised.type = "requests.HTTPError"
               /\ b_call.ret = NoResponse
        /\ (b_call.raised = NoExc) # (b_call.ret = NoResponse)

\* a GET answered with 503 raised, after exactly one request
C19Witness ==
    /\ b_call.op = "send_get_request"
    /\ b_call.response.status_code = 503
    /\ b_call.raised.type = "requests.HTTPError"
    /\ Len(b_call.requests) = 1
    /\ b_issued >= 1

=============================================================================
